---- MODULE Spec2Model ----
(***************************************************************************)
(* The pyqir generator's builder (pyqir-generator/src/python.rs) over the  *)
(* interop data model (qirlib/src/generation/interop.rs): the typed value  *)
(* model, the frame stack used by if_result, the variable allocator, the   *)
(* external-function table and finalization into a SemanticModel.          *)
(***************************************************************************)
EXTENDS Integers, Sequences, FiniteSets, TLC

VARIABLES
    frames,              \* Builder.frames: Vec<Vec<Instruction>>
    external_functions,  \* Builder.external_functions: Vec<(String, FunctionType)>
    last_variable,       \* Builder.last_variable: Option<Variable>
    model,               \* SimpleModule.model: SemanticModel
    calls,               \* the if_result invocations whose callback is running
    returned,            \* the model the latest successful finalization produced
    vocab,               \* the operations the client program uses in this build
    ops,                 \* instruction-producing operations started so far
    allocs,              \* every Variable fresh_variable has handed out, in order
    last,                \* the latest operation and its outcome
    lastIf,              \* the latest if_result that ran to its end
    pre,                 \* the builder as it was before the latest operation
    integer              \* an Integer::new invocation: its input and its result

builderVars == <<frames, external_functions, last_variable, model, calls,
                 returned, vocab, ops, allocs, last, lastIf, pre>>
vars == <<frames, external_functions, last_variable, model, calls,
          returned, vocab, ops, allocs, last, lastIf, pre, integer>>

----------------------------------------------------------------------------
(* Bounds *)

MaxOps == 3      \* instruction-producing operations per build
MaxFuncs == 2    \* add_external_function calls per build
MaxWidth == 10   \* widths tried for Integer::new
MaxValue == 300  \* values tried for Integer::new

----------------------------------------------------------------------------
(* Option<T>: None is the empty sequence, Some(x) the one-element sequence *)

None == <<>>
Some(x) == <<x>>

(* PyResult<T> *)
Ok(v) == [ok |-> TRUE, val |-> v]
Err(e) == [ok |-> FALSE, err |-> e]

Last(s) == s[Len(s)]
Front(s) == SubSeq(s, 1, Len(s) - 1)

----------------------------------------------------------------------------
(* interop.rs: ValueType, ReturnType, FunctionType *)

IntegerType(w) == [k |-> "Integer", width |-> w]
DoubleType == [k |-> "Double"]
QubitType == [k |-> "Qubit"]
ResultType == [k |-> "Result"]

Void == [r |-> "Void"]
ReturnValue(ty) == [r |-> "Value", ty |-> ty]

FunctionType(params, ret) == [param_types |-> params, return_type |-> ret]

(* interop.rs: Integer::new.  u64::leading_zeros counts the zero bits above *)
(* the highest set bit, so BITS - leading_zeros is the bit length.          *)
U64_BITS == 64

RECURSIVE BitLength(_)
BitLength(v) == IF v = 0 THEN 0 ELSE 1 + BitLength(v \div 2)

leading_zeros(v) == U64_BITS - BitLength(v)

IntegerNewLoose(width, value) ==
    LET value_width == U64_BITS - leading_zeros(value)
    IN  IF value_width > width + 1 THEN None
        ELSE Some([width |-> width, value |-> value])

IntegerNew(width, value) ==
    LET value_width == U64_BITS - leading_zeros(value)
    IN  IF value_width > width THEN None
        ELSE Some([width |-> width, value |-> value])

----------------------------------------------------------------------------
(* Integer::new on its own: the input is drawn at the start and the one     *)
(* step applies the constructor to it.                                      *)

Widths == 1..MaxWidth
Values == 0..MaxValue

IntegerIdle == [width |-> 1, value |-> 0, done |-> FALSE, result |-> None]

IntegerNewCall ==
    /\ ~integer.done
    /\ integer' = [integer EXCEPT !.done = TRUE,
                                  !.result = IntegerNew(integer.width, integer.value)]
    /\ UNCHANGED builderVars

----------------------------------------------------------------------------
(* interop.rs: Variable, Value *)

VariableNew(ty) == [ty |-> ty, id |-> 0]

VariableNextSame(v, ty) == [ty |-> ty, id |-> v.id]

VariableNext(v, ty) == [ty |-> ty, id |-> v.id + 1]

IntegerValue(i) == [tag |-> "Integer", width |-> i.width, value |-> i.value]
DoubleValue(x) == [tag |-> "Double", value |-> x]
QubitValue(id) == [tag |-> "Qubit", id |-> id]
ResultValue(id) == [tag |-> "Result", id |-> id]
VariableValue(v) == [tag |-> "Variable", var |-> v]

type_of(value) ==
    CASE value.tag = "Integer" -> IntegerType(value.width)
      [] value.tag = "Double" -> DoubleType
      [] value.tag = "Qubit" -> QubitType
      [] value.tag = "Result" -> ResultType
      [] value.tag = "Variable" -> value.var.ty

(* interop.rs: Instruction and its payloads *)

SingleKinds == {"H", "S", "SAdj", "T", "TAdj", "X", "Y", "Z", "Reset"}
ControlledKinds == {"Cx", "Cz"}
RotatedKinds == {"Rx", "Ry", "Rz"}
IntPredicates == {"EQ", "NE", "UGT", "UGE", "ULT", "ULE", "SGT", "SGE", "SLT", "SLE"}
ICmp(p) == "ICmp_" \o p
BinaryKinds == {"And", "Or", "Xor", "Add", "Sub", "Mul", "Shl", "LShr"}
                   \cup {ICmp(p) : p \in IntPredicates}

Single(kind, qubit) == [op |-> kind, qubit |-> qubit]
Controlled(kind, control, target) == [op |-> kind, control |-> control, target |-> target]
Measured(qubit, target) == [op |-> "M", qubit |-> qubit, target |-> target]
Rotated(kind, theta, qubit) == [op |-> kind, theta |-> theta, qubit |-> qubit]
BinaryOp(kind, lhs, rhs, result) ==
    [op |-> "BinaryOp", kind |-> kind, lhs |-> lhs, rhs |-> rhs, result |-> result]
CallInst(name, args, result) ==
    [op |-> "Call", name |-> name, args |-> args, result |-> result]
If(condition, then_insts, else_insts) ==
    [op |-> "If", condition |-> condition,
     then_insts |-> then_insts, else_insts |-> else_insts]

----------------------------------------------------------------------------
(* python.rs: the objects the Python caller passes.  A float is written in  *)
(* halves (PyFloat(3) is 1.5), so that an int converted to f64 is not the   *)
(* same number as the int.                                                  *)

NotAValue == [tag |-> "NotAValue"]
PyInt(n) == [py |-> "int", n |-> n, val |-> NotAValue]
PyFloat(halves) == [py |-> "float", n |-> halves, val |-> NotAValue]
PyQubit(index) == [py |-> "Qubit", n |-> index, val |-> NotAValue]
PyResultRef(index) == [py |-> "ResultRef", n |-> index, val |-> NotAValue]
PyStr == [py |-> "str", n |-> 0, val |-> NotAValue]
PyValue(v) == [py |-> "Value", n |-> 0, val |-> v]

QUBIT_NAME == "qubit"
RESULT_NAME == "result"

QubitId(index) == QUBIT_NAME \o ToString(index)
ResultRefId(index) == RESULT_NAME \o ToString(index)

(* A coercion that would refuse a Value whose type is not the expected one *)
extract_value_checked(ob, ty) ==
    IF ob.py = "Value"
    THEN IF type_of(ob.val) = ty THEN Ok(ob.val) ELSE Err("TypeError")
    ELSE CASE ty.k = "Integer" ->
                IF ob.py = "int"
                THEN LET i == IntegerNew(ty.width, ob.n)
                     IN  IF i = None THEN Err("OverflowError")
                         ELSE Ok(IntegerValue(i[1]))
                ELSE Err("TypeError")
           [] ty.k = "Double" ->
                IF ob.py = "float" THEN Ok(DoubleValue(ob.n))
                ELSE IF ob.py = "int" THEN Ok(DoubleValue(2 * ob.n))
                ELSE Err("TypeError")
           [] ty.k = "Qubit" ->
                IF ob.py = "Qubit" THEN Ok(QubitValue(QubitId(ob.n)))
                ELSE Err("TypeError")
           [] ty.k = "Result" ->
                IF ob.py = "ResultRef" THEN Ok(ResultValue(ResultRefId(ob.n)))
                ELSE Err("TypeError")

(* python.rs: extract_value *)
extract_value(ob, ty) ==
    IF ob.py = "Value" THEN Ok(ob.val)
    ELSE CASE ty.k = "Integer" ->
                IF ob.py = "int"
                THEN LET i == IntegerNew(ty.width, ob.n)
                     IN  IF i = None THEN Err("OverflowError")
                         ELSE Ok(IntegerValue(i[1]))
                ELSE Err("TypeError")
           [] ty.k = "Double" ->
                IF ob.py = "float" THEN Ok(DoubleValue(ob.n))
                ELSE IF ob.py = "int" THEN Ok(DoubleValue(2 * ob.n))
                ELSE Err("TypeError")
           [] ty.k = "Qubit" ->
                IF ob.py = "Qubit" THEN Ok(QubitValue(QubitId(ob.n)))
                ELSE Err("TypeError")
           [] ty.k = "Result" ->
                IF ob.py = "ResultRef" THEN Ok(ResultValue(ResultRefId(ob.n)))
                ELSE Err("TypeError")

(* A binary operation that would take two literals as 8-bit integers *)
extract_binary_operands_guess(lhs, rhs) ==
    IF lhs.py = "Value"
    THEN LET r == extract_value(rhs, type_of(lhs.val))
         IN  IF r.ok THEN Ok(<<lhs.val, r.val>>) ELSE r
    ELSE IF rhs.py = "Value"
    THEN LET l == extract_value(lhs, type_of(rhs.val))
         IN  IF l.ok THEN Ok(<<l.val, rhs.val>>) ELSE l
    ELSE LET l == extract_value(lhs, IntegerType(8))
             r == extract_value(rhs, IntegerType(8))
         IN  IF l.ok /\ r.ok THEN Ok(<<l.val, r.val>>) ELSE Err("TypeError")

(* python.rs: extract_binary_operands *)
extract_binary_operands(lhs, rhs) ==
    IF lhs.py = "Value"
    THEN LET r == extract_value(rhs, type_of(lhs.val))
         IN  IF r.ok THEN Ok(<<lhs.val, r.val>>) ELSE r
    ELSE IF rhs.py = "Value"
    THEN LET l == extract_value(lhs, type_of(rhs.val))
         IN  IF l.ok THEN Ok(<<l.val, rhs.val>>) ELSE l
    ELSE Err("TypeError")

----------------------------------------------------------------------------
(* python.rs: Builder's frame stack and variable allocator *)

push_inst(fs, inst) == [fs EXCEPT ![Len(fs)] = Append(@, inst)]

push_frame(fs) == Append(fs, <<>>)

(* A pop that would also take the frame below the top one *)
pop_frame_two(fs) ==
    IF fs = <<>> THEN [frames |-> fs, popped |-> None]
    ELSE IF Len(fs) = 1 THEN [frames |-> <<>>, popped |-> Some(Last(fs))]
    ELSE [frames |-> SubSeq(fs, 1, Len(fs) - 2), popped |-> Some(Last(fs))]

pop_frame(fs) ==
    IF fs = <<>> THEN [frames |-> fs, popped |-> None]
    ELSE [frames |-> Front(fs), popped |-> Some(Last(fs))]

fresh_variable_restart(lv, ty) == VariableNew(ty)

fresh_variable(lv, ty) ==
    IF lv = None THEN VariableNew(ty) ELSE VariableNext(lv[1], ty)

(* python.rs: Builder::call, the pieces that decide its outcome *)

Min(S) == CHOOSE x \in S : \A y \in S : x <= y

Max(S) == CHOOSE x \in S : \A y \in S : x >= y

(* A lookup that would take the latest declaration of the name *)
find_function_last(efs, name) ==
    LET hits == {i \in 1..Len(efs) : efs[i].name = name}
    IN  IF hits = {} THEN None ELSE Some(efs[Max(hits)].ty)

find_function(efs, name) ==
    LET hits == {i \in 1..Len(efs) : efs[i].name = name}
    IN  IF hits = {} THEN None ELSE Some(efs[Min(hits)].ty)

arity_any(num_params, num_args) == TRUE

arity_matches(num_params, num_args) == num_params = num_args

(* Arguments coerced against their parameters but collected back to front *)
extract_args_reversed(args, param_types) ==
    LET n == IF Len(args) < Len(param_types) THEN Len(args) ELSE Len(param_types)
        r == [i \in 1..n |-> extract_value(args[i], param_types[i])]
        bad == {i \in 1..n : ~r[i].ok}
    IN  IF bad = {} THEN Ok([i \in 1..n |-> r[n + 1 - i].val])
        ELSE Err(r[Min(bad)].err)

(* args.iter().zip(&ty.param_types).map(extract_value).collect(): the pairs *)
(* up to the shorter length, and the first error in argument order.         *)
extract_args(args, param_types) ==
    LET n == IF Len(args) < Len(param_types) THEN Len(args) ELSE Len(param_types)
        r == [i \in 1..n |-> extract_value(args[i], param_types[i])]
        bad == {i \in 1..n : ~r[i].ok}
    IN  IF bad = {} THEN Ok([i \in 1..n |-> r[i].val])
        ELSE Err(r[Min(bad)].err)

(* A binary operation that would hand back a variable other than the one   *)
(* its instruction writes                                                   *)
push_binary_op_other(fs, lv, kind, lhs, rhs) ==
    LET result == fresh_variable(lv, type_of(lhs))
    IN  [frames |-> push_inst(fs, BinaryOp(kind, lhs, rhs, result)),
         last_variable |-> Some(result),
         result |-> VariableNext(result, type_of(lhs))]

(* A binary operation that would record its operands the other way round   *)
push_binary_op_swapped(fs, lv, kind, lhs, rhs) ==
    LET result == fresh_variable(lv, type_of(lhs))
    IN  [frames |-> push_inst(fs, BinaryOp(kind, rhs, lhs, result)),
         last_variable |-> Some(result),
         result |-> result]

(* python.rs: Builder::push_binary_op *)
push_binary_op(fs, lv, kind, lhs, rhs) ==
    LET result == fresh_variable(lv, type_of(lhs))
    IN  [frames |-> push_inst(fs, BinaryOp(kind, lhs, rhs, result)),
         last_variable |-> Some(result),
         result |-> result]

----------------------------------------------------------------------------
(* interop.rs: SemanticModel, and python.rs: SimpleModule                   *)
(* A Vec held by a model is a handle: its own data, or (what a clone never  *)
(* is) a view of a vector the Builder still owns.                           *)

Owned(v) == [aliases |-> "nothing", data |-> v]

share(v, src) == [aliases |-> src, data |-> v]

clone(v, src) == Owned(v)

Deref(h) ==
    CASE h.aliases = "nothing" -> h.data
      [] h.aliases = "frames" -> frames[1]
      [] h.aliases = "external_functions" -> external_functions

QuantumRegister(name, index) == [name |-> name, index |-> index]
ClassicalRegister(name, size) == [name |-> name, size |-> size]

SimpleModuleNew(name, num_qubits, num_results) ==
    [name |-> name,
     external_functions |-> Owned(<<>>),
     registers |-> <<ClassicalRegister(RESULT_NAME, num_results)>>,
     qubits |-> [i \in 1..num_qubits |-> QuantumRegister(QUBIT_NAME, i - 1)],
     instructions |-> Owned(<<>>),
     use_static_qubit_alloc |-> TRUE,
     use_static_result_alloc |-> TRUE]

BuilderNew == [frames |-> <<<<>>>>, external_functions |-> <<>>, last_variable |-> None]

(* SimpleModule::model_from_builder: Some(model), or None where it panics *)
model_from_builder_first(m, fs, efs) ==
    IF Len(fs) >= 1
    THEN Some([m EXCEPT !.instructions = clone(fs[1], "frames"),
                        !.external_functions = clone(efs, "external_functions")])
    ELSE None

model_from_builder_own(m, fs, efs) ==
    IF Len(fs) = 1
    THEN Some([m EXCEPT !.instructions = clone(fs[1], "frames")])
    ELSE None

model_from_builder(m, fs, efs) ==
    IF Len(fs) = 1
    THEN Some([m EXCEPT !.instructions = clone(fs[1], "frames"),
                        !.external_functions = clone(efs, "external_functions")])
    ELSE None

(* SimpleModule.qubits and SimpleModule.results: the handles Python holds *)
Qubits == {model.qubits[i].index : i \in 1..Len(model.qubits)}
ResultRefs == 0..(model.registers[1].size - 1)

(* Every Value the builder has returned so far, and every operand on offer *)
HeldValues == {VariableValue(allocs[i]) : i \in 1..Len(allocs)}
Operands == vocab.literals \cup {PyValue(v) : v \in HeldValues}
ArgLists == UNION {[1..n -> Operands] : n \in vocab.arities}

----------------------------------------------------------------------------
(* What the latest operation was, and the builder before it *)

Outcome(op, outcome, name, nargs, ret) ==
    [op |-> op, outcome |-> outcome, name |-> name, nargs |-> nargs, ret |-> ret,
     given |-> <<>>]

(* The same record, with the Python operands the operation was given *)
Given(o, operands) == [o EXCEPT !.given = operands]

ReturnedView ==
    IF returned = None THEN None
    ELSE Some([instructions |-> Deref(returned[1].instructions),
               external_functions |-> Deref(returned[1].external_functions)])

Before ==
    [frames |-> frames, last_variable |-> last_variable,
     external_functions |-> external_functions, allocs |-> allocs,
     view |-> ReturnedView]

(* A failure that would surface only after a result variable was allocated *)
RejectedAfterAllocation(o) ==
    /\ last' = o
    /\ pre' = Before
    /\ last_variable' = Some(fresh_variable(last_variable, DoubleType))
    /\ UNCHANGED <<frames, external_functions, model, calls, returned, vocab, ops,
                   allocs, lastIf, integer>>

(* An operation that fails: nothing but the record of it changes *)
Rejected(o) ==
    /\ last' = o
    /\ pre' = Before
    /\ UNCHANGED <<frames, external_functions, last_variable, model, calls,
                   returned, vocab, ops, allocs, lastIf, integer>>

(* The running callback, if any, is the one that appended inst *)
Log(cs, inst) ==
    IF cs = <<>> THEN cs ELSE [cs EXCEPT ![Len(cs)].log = Append(@, inst)]

(* BasicQisBuilder::push_inst: one instruction onto the top frame *)
Appended(inst, o) ==
    /\ ops < MaxOps
    /\ frames' = push_inst(frames, inst)
    /\ calls' = Log(calls, inst)
    /\ ops' = ops + 1
    /\ last' = o
    /\ pre' = Before
    /\ UNCHANGED <<external_functions, model, returned, vocab, lastIf, integer>>

----------------------------------------------------------------------------
(* BasicQisBuilder: the gates *)

SingleGate ==
    \E kind \in vocab.singles, q \in Qubits :
        /\ Appended(Single(kind, QubitId(q)), Outcome(kind, "Ok", "", 0, None))
        /\ UNCHANGED <<last_variable, allocs>>

ControlledGate ==
    \E kind \in vocab.controlled, c \in Qubits, t \in Qubits :
        /\ Appended(Controlled(kind, QubitId(c), QubitId(t)),
                    Outcome(kind, "Ok", "", 0, None))
        /\ UNCHANGED <<last_variable, allocs>>

Measure ==
    \E q \in Qubits, r \in ResultRefs :
        /\ vocab.measure
        /\ Appended(Measured(QubitId(q), ResultRefId(r)), Outcome("M", "Ok", "", 0, None))
        /\ UNCHANGED <<last_variable, allocs>>

Rotation ==
    \E kind \in vocab.rotations, theta \in Operands, q \in Qubits :
        LET t == extract_value(theta, DoubleType)
            given == <<theta>>
        IN  IF ~t.ok THEN Rejected(Given(Outcome(kind, t.err, "", 0, None), given))
            ELSE /\ Appended(Rotated(kind, t.val, QubitId(q)),
                             Given(Outcome(kind, "Ok", "", 0, None), given))
                 /\ UNCHANGED <<last_variable, allocs>>

----------------------------------------------------------------------------
(* Builder: binary operations, neg, call *)

BinaryOpAny ==
    \E kind \in vocab.kinds, lhs \in Operands, rhs \in Operands :
        LET operands == extract_binary_operands(lhs, rhs)
            given == <<lhs, rhs>>
        IN  IF ~operands.ok
            THEN Rejected(Given(Outcome(kind, operands.err, "", 0, None), given))
            ELSE LET r == push_binary_op(frames, last_variable, kind,
                                         operands.val[1], operands.val[2])
                 IN  /\ Appended(Last(Last(r.frames)),
                                 Given(Outcome(kind, "Ok", "", 0,
                                               Some(VariableValue(r.result))), given))
                     /\ last_variable' = r.last_variable
                     /\ allocs' = Append(allocs, r.result)

Neg ==
    \E value \in HeldValues :
        /\ vocab.neg
        /\ LET ty == type_of(value)
           IN  IF ty.k = "Integer"
               THEN LET zero == IntegerValue(IntegerNew(ty.width, 0)[1])
                        r == push_binary_op(frames, last_variable, "Sub", zero, value)
                    IN  /\ Appended(Last(Last(r.frames)),
                                    Given(Outcome("neg", "Ok", "", 0,
                                                  Some(VariableValue(r.result))),
                                          <<PyValue(value)>>))
                        /\ last_variable' = r.last_variable
                        /\ allocs' = Append(allocs, r.result)
               ELSE Rejected(Given(Outcome("neg", "TypeError", "", 0, None),
                                   <<PyValue(value)>>))

Call ==
    \E name \in vocab.callees, args \in ArgLists :
        LET found == find_function(external_functions, name)
            n == Len(args)
        IN  IF found = None
            THEN Rejected(Given(Outcome("call", "Panic", name, n, None), args))
            ELSE LET ty == found[1]
                     a == extract_args(args, ty.param_types)
                 IN  IF ~arity_matches(Len(ty.param_types), n)
                     THEN Rejected(Given(Outcome("call", "ValueError", name, n, None),
                                         args))
                     ELSE IF ~a.ok
                     THEN Rejected(Given(Outcome("call", a.err, name, n, None), args))
                     ELSE LET result == IF ty.return_type = Void THEN None
                                        ELSE Some(fresh_variable(last_variable,
                                                                 ty.return_type.ty))
                          IN  /\ Appended(CallInst(name, a.val, result),
                                          Given(Outcome("call", "Ok", name, n,
                                                        IF result = None THEN None
                                                        ELSE Some(VariableValue(result[1]))),
                                                args))
                              /\ last_variable' = IF result = None THEN last_variable
                                                  ELSE result
                              /\ allocs' = allocs \o result

----------------------------------------------------------------------------
(* SimpleModule: declarations, allocation flags, finalization *)

AddExternalFunction ==
    \E d \in vocab.decls :
        /\ Len(external_functions) < MaxFuncs
        /\ vocab.redeclares \/ find_function(external_functions, d.name) = None
        /\ external_functions' = Append(external_functions, [name |-> d.name, ty |-> d.ty])
        /\ last' = Outcome("add_external_function", "Ok", d.name, 0, None)
        /\ pre' = Before
        /\ UNCHANGED <<frames, last_variable, model, calls, returned, vocab, ops,
                       allocs, lastIf, integer>>

UseStaticQubitAlloc ==
    \E value \in vocab.flags :
        /\ model' = [model EXCEPT !.use_static_qubit_alloc = value]
        /\ last' = Outcome("use_static_qubit_alloc", "Ok", "", 0, None)
        /\ pre' = Before
        /\ UNCHANGED <<frames, external_functions, last_variable, calls, returned,
                       vocab, ops, allocs, lastIf, integer>>

UseStaticResultAlloc ==
    \E value \in vocab.flags :
        /\ model' = [model EXCEPT !.use_static_result_alloc = value]
        /\ last' = Outcome("use_static_result_alloc", "Ok", "", 0, None)
        /\ pre' = Before
        /\ UNCHANGED <<frames, external_functions, last_variable, calls, returned,
                       vocab, ops, allocs, lastIf, integer>>

(* ir() and bitcode(): model_from_builder, whose model then goes to emit *)
Finalize(op) ==
    LET m == model_from_builder(model, frames, external_functions)
    IN  /\ returned' = IF m = None THEN returned ELSE m
        /\ last' = Outcome(op, IF m = None THEN "Panic" ELSE "Ok", "", 0, None)
        /\ pre' = Before
        /\ UNCHANGED <<frames, external_functions, last_variable, model, calls,
                       vocab, ops, allocs, lastIf, integer>>

Ir == "ir" \in vocab.emits /\ Finalize("ir")

Bitcode == "bitcode" \in vocab.emits /\ Finalize("bitcode")

----------------------------------------------------------------------------
(* BasicQisBuilder::if_result.  The invocation is cut where it hands        *)
(* control to a callback: build_then runs it up to the first callback,      *)
(* after_then resumes it when the then callback has returned, after_else    *)
(* when the else callback has.  An invocation record keeps what the Rust    *)
(* frame keeps (condition, the callbacks, then_insts) and, for the claims,  *)
(* the frame stack at the call and what each callback appended itself.      *)

Invocation(condition, one, zero, fs) ==
    [condition |-> condition, one |-> one, zero |-> zero, phase |-> "then",
     then_insts |-> <<>>, frames0 |-> fs, mid_depth |-> 0,
     log |-> <<>>, then_log |-> <<>>, else_log |-> <<>>]

after_else(fs, inv) ==
    LET p == pop_frame(fs)
        if_inst == If(inv.condition, inv.then_insts, p.popped[1])
    IN  [frames |-> push_inst(p.frames, if_inst), done |-> TRUE,
         inv |-> [inv EXCEPT !.phase = "done"]]

build_else(fs, inv) ==
    LET pushed == push_frame(fs)
    IN  IF inv.zero
        THEN [frames |-> pushed, done |-> FALSE,
              inv |-> [inv EXCEPT !.phase = "else", !.log = <<>>]]
        ELSE after_else(pushed, inv)

after_then(fs, inv) ==
    LET p == pop_frame(fs)
    IN  build_else(p.frames, [inv EXCEPT !.then_insts = p.popped[1],
                                         !.mid_depth = Len(p.frames)])

build_then(fs, inv) ==
    LET pushed == push_frame(fs)
    IN  IF inv.one
        THEN [frames |-> pushed, done |-> FALSE, inv |-> inv]
        ELSE after_then(pushed, inv)

(* The invocation either ends, appending its If, or waits in a callback *)
Proceed(r, outer) ==
    /\ frames' = r.frames
    /\ pre' = Before
    /\ IF r.done
       THEN /\ calls' = Log(outer, Last(Last(r.frames)))
            /\ lastIf' = Some([inv |-> r.inv, outcome |-> "Ok"])
            /\ last' = Outcome("if_result", "Ok", "", 0, None)
       ELSE /\ calls' = Append(outer, r.inv)
            /\ lastIf' = lastIf
            /\ last' = Outcome("if_result", "InCallback", "", 0, None)

IfResult ==
    \E result \in ResultRefs, b \in vocab.branches :
        /\ ops < MaxOps
        /\ ops' = ops + 1
        /\ Proceed(build_then(frames, Invocation(ResultRefId(result), b[1], b[2], frames)),
                   calls)
        /\ UNCHANGED <<external_functions, last_variable, model, returned, vocab,
                       allocs, integer>>

CallbackReturn ==
    /\ calls # <<>>
    /\ LET inv == Last(calls)
       IN  Proceed(IF inv.phase = "then"
                   THEN after_then(frames, [inv EXCEPT !.then_log = inv.log])
                   ELSE after_else(frames, [inv EXCEPT !.else_log = inv.log]),
                   Front(calls))
    /\ UNCHANGED <<external_functions, last_variable, model, returned, vocab, ops,
                   allocs, integer>>

(* callback.call0()? : the callback raised, and if_result returns the error *)
(* at once, before pop_frame                                                *)
CallbackRaise ==
    /\ calls # <<>>
    /\ vocab.raises
    /\ calls' = Front(calls)
    /\ lastIf' = Some([inv |-> Last(calls), outcome |-> "CallbackError"])
    /\ last' = Outcome("if_result", "CallbackError", "", 0, None)
    /\ pre' = Before
    /\ UNCHANGED <<frames, external_functions, last_variable, model, returned,
                   vocab, ops, allocs, integer>>

----------------------------------------------------------------------------
(* The client programs.  A program is bounded by the operations it uses:    *)
(* which gates, which operands, which declarations, which callbacks.        *)

FnVoid == FunctionType(<<>>, Void)
FnInt == FunctionType(<<>>, ReturnValue(IntegerType(8)))
FnDouble == FunctionType(<<>>, ReturnValue(DoubleType))
FnIntToInt == FunctionType(<<IntegerType(8)>>, ReturnValue(IntegerType(8)))
FnIntDoubleToVoid == FunctionType(<<IntegerType(8), DoubleType>>, Void)
FnWide == FunctionType(<<>>, ReturnValue(IntegerType(16)))
FnQubit == FunctionType(<<>>, ReturnValue(QubitType))
FnResult == FunctionType(<<>>, ReturnValue(ResultType))

Decl(name, ty) == [name |-> name, ty |-> ty]

Quiet ==
    [name |-> "quiet", num_qubits |-> 1, num_results |-> 1,
     singles |-> {}, controlled |-> {}, measure |-> FALSE, rotations |-> {},
     kinds |-> {}, neg |-> FALSE, literals |-> {},
     decls |-> {}, callees |-> {}, arities |-> {},
     redeclares |-> FALSE,
     branches |-> {}, raises |-> FALSE, emits |-> {}, flags |-> {}]

GateProgram ==
    [Quiet EXCEPT !.name = "gates", !.singles = SingleKinds]

TwoQubitProgram ==
    [Quiet EXCEPT !.name = "bell", !.num_qubits = 2,
                  !.controlled = ControlledKinds, !.measure = TRUE]

BranchProgram ==
    [Quiet EXCEPT !.name = "branches", !.singles = {"X"},
                  !.branches = BOOLEAN \X BOOLEAN, !.raises = TRUE]

FinalizeProgram ==
    [Quiet EXCEPT !.name = "finalize", !.singles = {"X"},
                  !.branches = {<<TRUE, FALSE>>}, !.raises = TRUE,
                  !.emits = {"ir"}]

ModuleProgram ==
    [Quiet EXCEPT !.name = "module",
                  !.decls = {Decl("f", FnVoid)}, !.callees = {"f"}, !.arities = {0},
                  !.flags = BOOLEAN, !.emits = {"ir", "bitcode"}]

NestedProgram ==
    [Quiet EXCEPT !.name = "nested", !.kinds = {"Add"}, !.neg = TRUE,
                  !.decls = {Decl("f", FnInt)}, !.callees = {"f"}, !.arities = {0},
                  !.branches = {<<TRUE, TRUE>>, <<TRUE, FALSE>>}, !.raises = TRUE]

ArityProgram ==
    [Quiet EXCEPT !.name = "arity",
                  !.literals = {PyInt(255), PyInt(256)},
                  !.decls = {Decl("f", FnIntToInt)},
                  !.callees = {"f", "h"}, !.arities = {0, 1, 2}]

ArgumentProgram ==
    [Quiet EXCEPT !.name = "arguments",
                  !.literals = {PyInt(255), PyStr},
                  !.decls = {Decl("f", FnDouble), Decl("g", FnIntDoubleToVoid)},
                  !.callees = {"f", "g"}, !.arities = {0, 2}]

RedeclareProgram ==
    [Quiet EXCEPT !.name = "redeclare", !.redeclares = TRUE,
                  !.literals = {PyInt(255)},
                  !.decls = {Decl("f", FnInt), Decl("f", FnIntToInt), Decl("f", FnVoid)},
                  !.callees = {"f"}, !.arities = {0, 1}]

RotationProgram ==
    [Quiet EXCEPT !.name = "rotations", !.rotations = RotatedKinds,
                  !.literals = {PyFloat(3), PyInt(1), PyStr},
                  !.decls = {Decl("f", FnInt)}, !.callees = {"f"}, !.arities = {0}]

LiteralProgram ==
    [Quiet EXCEPT !.name = "literals", !.kinds = BinaryKinds,
                  !.literals = {PyInt(1), PyFloat(3)}]

ValueProgram(name, kinds) ==
    [Quiet EXCEPT !.name = name, !.kinds = kinds,
                  !.decls = {Decl("f", FnInt)}, !.callees = {"f"}, !.arities = {0}]

BitwiseProgram == ValueProgram("bitwise", {"And", "Or", "Xor"})
ShiftProgram == ValueProgram("shifts", {"Shl", "LShr"})
ArithmeticProgram == [ValueProgram("arithmetic", {"Add", "Sub", "Mul"}) EXCEPT !.neg = TRUE]
EqualityProgram == ValueProgram("equality", {ICmp("EQ"), ICmp("NE")})
UnsignedProgram ==
    ValueProgram("unsigned", {ICmp("UGT"), ICmp("UGE"), ICmp("ULT"), ICmp("ULE")})
SignedProgram ==
    ValueProgram("signed", {ICmp("SGT"), ICmp("SGE"), ICmp("SLT"), ICmp("SLE")})

CoercionProgram ==
    [Quiet EXCEPT !.name = "coercion", !.kinds = {"Add"},
                  !.literals = {PyInt(255), PyInt(256), PyFloat(3)},
                  !.decls = {Decl("f", FnInt)}, !.callees = {"f"}, !.arities = {0}]

MixedProgram ==
    [Quiet EXCEPT !.name = "mixed", !.kinds = {"Add"},
                  !.literals = {PyInt(256)},
                  !.decls = {Decl("f", FnInt), Decl("g", FnDouble)},
                  !.callees = {"f", "g"}, !.arities = {0}]

NegProgram ==
    [Quiet EXCEPT !.name = "negation", !.neg = TRUE,
                  !.decls = {Decl("w", FnWide), Decl("d", FnDouble),
                             Decl("q", FnQubit), Decl("r", FnResult)},
                  !.callees = {"w", "d", "q", "r"}, !.arities = {0}]

Vocabularies ==
    {GateProgram, TwoQubitProgram, BranchProgram, FinalizeProgram, ModuleProgram,
     NestedProgram, ArityProgram, ArgumentProgram, RedeclareProgram, RotationProgram,
     LiteralProgram, BitwiseProgram, ShiftProgram, ArithmeticProgram, EqualityProgram,
     UnsignedProgram, SignedProgram, CoercionProgram, MixedProgram, NegProgram}

----------------------------------------------------------------------------
(* The state after SimpleModule::new, and the builds from it *)

InitBuilder(v) ==
    /\ vocab = v
    /\ model = SimpleModuleNew(v.name, v.num_qubits, v.num_results)
    /\ frames = BuilderNew.frames
    /\ external_functions = BuilderNew.external_functions
    /\ last_variable = BuilderNew.last_variable
    /\ calls = <<>>
    /\ returned = None
    /\ ops = 0
    /\ allocs = <<>>
    /\ last = Outcome("new", "Ok", "", 0, None)
    /\ lastIf = None
    /\ pre = [frames |-> BuilderNew.frames, last_variable |-> None,
              external_functions |-> <<>>, allocs |-> <<>>, view |-> None]

Init ==
    /\ \E v \in Vocabularies : InitBuilder(v)
    /\ integer = IntegerIdle

Next ==
    \/ SingleGate
    \/ ControlledGate
    \/ Measure
    \/ Rotation
    \/ BinaryOpAny
    \/ Neg
    \/ Call
    \/ AddExternalFunction
    \/ UseStaticQubitAlloc
    \/ UseStaticResultAlloc
    \/ Ir
    \/ Bitcode
    \/ IfResult
    \/ CallbackReturn
    \/ CallbackRaise

Spec == Init /\ [][Next]_vars

InitInteger ==
    /\ InitBuilder(Quiet)
    /\ integer \in [width : Widths, value : Values, done : {FALSE}, result : {None}]

NextInteger == IntegerNewCall

SpecInteger == InitInteger /\ [][NextInteger]_vars

----------------------------------------------------------------------------
(* Helpers of the claims *)

RECURSIVE Pow2(_)
Pow2(n) == IF n = 0 THEN 1 ELSE 2 * Pow2(n - 1)

(* The result variable ids written by a list of instructions, nested If     *)
(* bodies included, one entry per writing instruction                       *)
RECURSIVE ResultIds(_)
ResultIds(insts) ==
    IF insts = <<>> THEN <<>>
    ELSE LET i == Head(insts)
             own == CASE i.op = "BinaryOp" -> <<i.result.id>>
                      [] i.op = "Call" -> [k \in 1..Len(i.result) |-> i.result[k].id]
                      [] i.op = "If" -> ResultIds(i.then_insts) \o ResultIds(i.else_insts)
                      [] OTHER -> <<>>
         IN  own \o ResultIds(Tail(insts))

RECURSIVE StackResultIds(_)
StackResultIds(fs) ==
    IF fs = <<>> THEN <<>> ELSE ResultIds(Head(fs)) \o StackResultIds(Tail(fs))

Distinct(seq) == \A a, b \in 1..Len(seq) : a # b => seq[a] # seq[b]

(* What the latest operation left alone when it failed *)
NothingAppended == frames = pre.frames
NothingAllocated == last_variable = pre.last_variable /\ allocs = pre.allocs

IsBinaryOp == last.op \in BinaryKinds
IsValue(ob) == ob.py = "Value"

CoercionErrors == {"TypeError", "OverflowError"}
CoercionFailed ==
    /\ last.op \in BinaryKinds \cup RotatedKinds \cup {"call"}
    /\ last.outcome \in CoercionErrors

(* The frame stack is the one before, plus inst on top of its top frame *)
OneAppended(inst) ==
    frames = [pre.frames EXCEPT ![Len(pre.frames)] = Append(@, inst)]

AllocatedIds(vs) == {vs[i].id : i \in 1..Len(vs)}

(* Exactly one variable was allocated, of type ty, and it is new *)
OneAllocated(ty) ==
    /\ Len(allocs) = Len(pre.allocs) + 1
    /\ SubSeq(allocs, 1, Len(pre.allocs)) = pre.allocs
    /\ Last(allocs).ty = ty
    /\ Last(allocs).id \notin AllocatedIds(pre.allocs)
    /\ last_variable = Some(Last(allocs))

(* Every instruction of a list, those inside If bodies included *)
RECURSIVE Flatten(_)
Flatten(insts) ==
    IF insts = <<>> THEN <<>>
    ELSE LET i == Head(insts)
             inner == IF i.op = "If"
                      THEN Flatten(i.then_insts) \o Flatten(i.else_insts)
                      ELSE <<>>
         IN  <<i>> \o inner \o Flatten(Tail(insts))

RECURSIVE StackInstructions(_)
StackInstructions(fs) ==
    IF fs = <<>> THEN <<>> ELSE Flatten(Head(fs)) \o StackInstructions(Tail(fs))

(* The operations that append one instruction themselves *)
AppendingOps ==
    SingleKinds \cup ControlledKinds \cup {"M"} \cup RotatedKinds \cup BinaryKinds
        \cup {"neg", "call"}

(* Whether a literal (an operand that is not a Value) converts to ty *)
LiteralFits(ob, ty) ==
    CASE ty.k = "Integer" -> ob.py = "int" /\ ob.n < Pow2(ty.width)
      [] ty.k = "Double" -> ob.py \in {"int", "float"}
      [] ty.k = "Qubit" -> ob.py = "Qubit"
      [] ty.k = "Result" -> ob.py = "ResultRef"

Finalized == last.op \in {"ir", "bitcode"}
IfEnded == last.op = "if_result" /\ last.outcome = "Ok"
TopInstruction == Last(Last(frames))

----------------------------------------------------------------------------
(* C1: Integer::new(w, v) returns a value exactly when v fits in w bits     *)
(* (v < 2^w), and the value it returns carries w and v; (8,255) succeeds    *)
(* and (8,256) returns None.                                                *)
C1_IntegerNewFits ==
    integer.done =>
        /\ (integer.result # None) <=> (integer.value < Pow2(integer.width))
        /\ integer.result # None =>
               integer.result[1] = [width |-> integer.width, value |-> integer.value]
        /\ (integer.width = 8 /\ integer.value = 255) => integer.result # None
        /\ (integer.width = 8 /\ integer.value = 256) => integer.result = None

C1_Witness ==
    integer.done /\ integer.width = 8 /\ integer.value = 256 /\ integer.result = None

(* C2: the k-th allocation of a build (from 0) has id k, whatever its type, *)
(* the operation that made it and the frame depth, and the allocator always *)
(* stands at the latest allocation.                                         *)
C2_SequentialIds ==
    /\ \A k \in 1..Len(allocs) : allocs[k].id = k - 1
    /\ last_variable = IF allocs = <<>> THEN None ELSE Some(Last(allocs))

C2_Witness ==
    /\ Len(frames) >= 2
    /\ Len(allocs) >= 2
    /\ last.op = "Add" /\ last.outcome = "Ok"
    /\ TopInstruction.op = "BinaryOp"
    /\ TopInstruction.result.id = 1

(* C3: no two instructions of the frame stack, at any frame and any depth   *)
(* inside If bodies, write the same result variable id.                     *)
C3_UniqueResults == Distinct(StackResultIds(frames))

C3_Witness ==
    /\ Len(StackResultIds(frames)) >= 2
    /\ \E k \in 1..Len(frames[1]) :
           /\ frames[1][k].op = "If"
           /\ ResultIds(frames[1][k].then_insts) # <<>>

(* C4: an if_result without a then callback and with an else callback that  *)
(* succeeds appends an If with an empty then_insts and with else_insts      *)
(* exactly what the else callback appended, in order; without an else       *)
(* callback else_insts is empty.                                            *)
C4_ElseOnlyBranch ==
    (IfEnded /\ lastIf # None) =>
        LET inv == lastIf[1].inv
            inst == TopInstruction
        IN  /\ (~inv.one /\ inv.zero) =>
                   /\ inst.then_insts = <<>>
                   /\ inst.else_insts = inv.else_log
            /\ (inv.one /\ ~inv.zero) => inst.else_insts = <<>>

(* C5: an if_result whose callbacks succeed pops the then frame before it   *)
(* pushes the else frame and appends exactly one If, holding both lists, to *)
(* the frame that was on top at the call; the stack is as deep after the    *)
(* call as before it.                                                       *)
C5_OneIfSameDepth ==
    (IfEnded /\ lastIf # None) =>
        LET inv == lastIf[1].inv
            inst == TopInstruction
            depth == Len(inv.frames0)
        IN  /\ inv.mid_depth = depth
            /\ Len(frames) = depth
            /\ inst.op = "If"
            /\ frames = [inv.frames0 EXCEPT ![depth] = Append(@, inst)]

(* C6: finalization (ir, bitcode) with a frame stack that is not exactly    *)
(* one frame deep fails and returns no model.                               *)
C6_RejectsUnbalanced ==
    (Finalized /\ Len(pre.frames) # 1) =>
        /\ last.outcome = "Panic"
        /\ ReturnedView = pre.view

C6_Witness ==
    /\ last.op = "ir" /\ last.outcome = "Panic"
    /\ Len(frames) = 2
    /\ frames[1] # <<>>

(* C7: with exactly one frame, finalization returns a model whose           *)
(* instructions are that frame and whose external functions are the         *)
(* builder's table, in order, with the module's name, registers, qubits and *)
(* allocation flags.                                                        *)
C7_ModelOfBuilder ==
    (Finalized /\ Len(pre.frames) = 1) =>
        /\ last.outcome = "Ok"
        /\ returned # None
        /\ Deref(returned[1].instructions) = pre.frames[1]
        /\ Deref(returned[1].external_functions) = pre.external_functions
        /\ returned[1].name = vocab.name
        /\ Len(returned[1].qubits) = vocab.num_qubits
        /\ returned[1].qubits = model.qubits
        /\ returned[1].registers = <<ClassicalRegister(RESULT_NAME, vocab.num_results)>>
        /\ returned[1].use_static_qubit_alloc = model.use_static_qubit_alloc
        /\ returned[1].use_static_result_alloc = model.use_static_result_alloc

C7_Witness ==
    /\ Finalized /\ last.outcome = "Ok"
    /\ returned # None
    /\ Deref(returned[1].instructions) # <<>>
    /\ Deref(returned[1].external_functions) # <<>>
    /\ ~returned[1].use_static_qubit_alloc
    /\ returned[1].use_static_result_alloc

(* C8: a model returned by finalization keeps its instruction list and its  *)
(* external-function list through every later builder operation.            *)
C8_SnapshotKept == ~Finalized => ReturnedView = pre.view

C8_Witness ==
    /\ returned # None
    /\ last.op = "call" /\ last.outcome = "Ok"
    /\ Len(frames) = 1
    /\ ReturnedView[1].instructions # frames[1]
    /\ ReturnedView[1].external_functions = external_functions

(* C9: a call of a declared function with an argument count other than its  *)
(* parameter count fails with the arity error (ValueError), appends nothing *)
(* and allocates nothing.                                                   *)
C9_ArityError ==
    LET found == find_function(external_functions, last.name)
    IN  (last.op = "call" /\ found # None
           /\ last.nargs # Len(found[1].param_types)) =>
            /\ last.outcome = "ValueError"
            /\ frames = pre.frames
            /\ last_variable = pre.last_variable
            /\ allocs = pre.allocs

C9_Witness ==
    /\ last.op = "call" /\ last.outcome = "ValueError"
    /\ last.nargs = 2
    /\ frames[1] # <<>>

(* C10: a call of a name never declared on this builder fails with an error *)
(* returned to the caller for that operation (not a panic), appends nothing *)
(* and allocates nothing.                                                   *)
C10_UnknownCalleeError ==
    (last.op = "call" /\ find_function(external_functions, last.name) = None) =>
        /\ last.outcome \notin {"Ok", "Panic"}
        /\ frames = pre.frames
        /\ last_variable = pre.last_variable
        /\ allocs = pre.allocs

(* C11: a binary operation (and, or, xor, add, sub, mul, shl, lshr, the ten *)
(* icmp) given two operands of which neither is a typed Value fails with    *)
(* the type error, appends no instruction and allocates no variable.        *)
C11_LiteralsRejected ==
    (IsBinaryOp /\ ~IsValue(last.given[1]) /\ ~IsValue(last.given[2])) =>
        /\ last.outcome = "TypeError"
        /\ last.ret = None
        /\ NothingAppended
        /\ NothingAllocated

C11_Witness ==
    /\ last.op = ICmp("SLE")
    /\ last.given = <<PyInt(1), PyInt(1)>>
    /\ last.outcome = "TypeError"

(* C12: a binary operation, a rotation or a call that fails while coercing  *)
(* an operand (a literal too big for the width, an operand of the wrong     *)
(* kind, also at a later argument of a call) leaves the builder as it was:  *)
(* every frame, the depth, the last-allocated variable, the declarations.   *)
C12_FailedCoercionKeepsState ==
    CoercionFailed =>
        /\ frames = pre.frames
        /\ Len(frames) = Len(pre.frames)
        /\ last_variable = pre.last_variable
        /\ allocs = pre.allocs
        /\ external_functions = pre.external_functions
        /\ last.ret = None

C12_Witness ==
    /\ last.op = "call" /\ last.name = "g"
    /\ last.given = <<PyInt(255), PyStr>>
    /\ last.outcome = "TypeError"
    /\ frames[1] # <<>>
    /\ last_variable # None

(* C13: a successful call of a Void function returns no value and          *)
(* allocates no variable; a successful call of a function that returns a    *)
(* value allocates exactly one fresh variable of the declared return type   *)
(* and returns it; either way exactly one Call is appended to the top       *)
(* frame, with the callee's name, the coerced arguments in argument order   *)
(* and that optional result variable.                                       *)
C13_CallRecorded ==
    (last.op = "call" /\ last.outcome = "Ok") =>
        LET ty == find_function(pre.external_functions, last.name)[1]
            inst == TopInstruction
        IN  /\ OneAppended(inst)
            /\ inst.op = "Call"
            /\ inst.name = last.name
            /\ Len(inst.args) = Len(last.given)
            /\ \A i \in 1..Len(last.given) :
                   inst.args[i] = extract_value(last.given[i], ty.param_types[i]).val
            /\ IF ty.return_type = Void
               THEN /\ last.ret = None
                    /\ inst.result = None
                    /\ NothingAllocated
               ELSE /\ OneAllocated(ty.return_type.ty)
                    /\ inst.result = Some(Last(allocs))
                    /\ last.ret = Some(VariableValue(Last(allocs)))

C13_Witness ==
    /\ last.op = "call" /\ last.outcome = "Ok" /\ last.name = "g"
    /\ Len(last.given) = 2
    /\ last.given[1] = PyInt(255) /\ last.given[2].py = "Value"
    /\ TopInstruction.args[1] = IntegerValue([width |-> 8, value |-> 255])
    /\ TopInstruction.result = None
    /\ Len(allocs) = 1

(* C14: the builder's external-function table holds each name at most      *)
(* once, whatever add_external_function calls were made, calls that repeat  *)
(* a name included.                                                         *)
C14_UniqueNames ==
    \A a, b \in 1..Len(external_functions) :
        a # b => external_functions[a].name # external_functions[b].name

(* C15: every Rx, Ry, Rz in any frame has an angle of type Double,         *)
(* whatever the caller passed as theta (a number, or a typed Value of an    *)
(* earlier operation), and a theta that is a Value of another type is       *)
(* rejected.                                                                *)
C15_DoubleAngles ==
    LET all == StackInstructions(frames)
    IN  /\ \A k \in 1..Len(all) :
               all[k].op \in RotatedKinds => type_of(all[k].theta) = DoubleType
        /\ (last.op \in RotatedKinds /\ IsValue(last.given[1])
               /\ type_of(last.given[1].val) # DoubleType) => last.outcome # "Ok"

(* C16: in every BinaryOp the builder has appended, lhs and rhs have the    *)
(* same ValueType, whichever operands were accepted: a typed Value with a   *)
(* literal, a literal with a typed Value, or two typed Values.              *)
C16_SameOperandTypes ==
    LET all == StackInstructions(frames)
    IN  \A k \in 1..Len(all) :
            all[k].op = "BinaryOp" => type_of(all[k].lhs) = type_of(all[k].rhs)

(* C17: the result variable of every successful comparison (the ten icmp)  *)
(* is a 1-bit integer, whatever the width of the operands compared.         *)
C17_BooleanResult ==
    (last.op \in {ICmp(p) : p \in IntPredicates} /\ last.outcome = "Ok") =>
        /\ TopInstruction.result.ty = IntegerType(1)
        /\ type_of(last.ret[1]) = IntegerType(1)

(* C18: when a branch callback fails, if_result still pops the frame it    *)
(* pushed for that branch: the stack is as deep after the failed if_result  *)
(* as before it, and a finalization at top level sees exactly one frame.    *)
C18_FailedBranchPopped ==
    /\ (last.op = "if_result" /\ last.outcome = "CallbackError") =>
           Len(frames) = Len(lastIf[1].inv.frames0)
    /\ (Finalized /\ calls = <<>>) => Len(pre.frames) = 1

(* C19: every append (gate, measurement, reset, rotation, binary op, call,  *)
(* If) adds exactly one instruction at the end of the top frame and leaves  *)
(* the outer frames and the prefix of the top frame as they were; so what   *)
(* is appended while a branch callback runs, the If of a nested if_result   *)
(* included, ends up in that branch's list.                                 *)
C19_AppendsToTopFrame ==
    /\ (last.op \in AppendingOps /\ last.outcome = "Ok") =>
           OneAppended(TopInstruction)
    /\ (IfEnded /\ lastIf # None) =>
           LET inv == lastIf[1].inv
               inst == TopInstruction
               below == IF inv.one \/ inv.zero THEN Front(pre.frames) ELSE pre.frames
           IN  /\ inst.op = "If"
               /\ frames = push_inst(below, inst)
               /\ inst.then_insts = inv.then_log
               /\ inst.else_insts = inv.else_log

(* C20: every successful binary-style operation (the binary operations and *)
(* neg) allocates exactly one fresh variable and appends exactly one        *)
(* BinaryOp to the top frame; the result of that instruction is the new     *)
(* variable, and the Value returned to the caller is that variable.         *)
C20_BinaryOpResult ==
    (last.op \in BinaryKinds \cup {"neg"} /\ last.outcome = "Ok") =>
        LET inst == TopInstruction
            v == Last(allocs)
        IN  /\ OneAppended(inst)
            /\ inst.op = "BinaryOp"
            /\ inst.kind = IF last.op = "neg" THEN "Sub" ELSE last.op
            /\ Len(allocs) = Len(pre.allocs) + 1
            /\ SubSeq(allocs, 1, Len(pre.allocs)) = pre.allocs
            /\ v.id \notin AllocatedIds(pre.allocs)
            /\ last_variable = Some(v)
            /\ inst.result = v
            /\ last.ret = Some(VariableValue(v))

C20_Witness ==
    /\ last.op = "Add" /\ last.outcome = "Ok"
    /\ Len(frames) = 2
    /\ Len(frames[2]) = 2
    /\ frames[2][1].op = "Call"
    /\ last.ret = Some(VariableValue(frames[2][2].result))

(* C21: neg of a Value of type Integer of width w appends one BinaryOp of   *)
(* kind Sub whose lhs is the integer 0 of width w and whose rhs is the      *)
(* value, and returns the fresh result variable; neg of a Value of any      *)
(* other type (Double, Qubit, Result) fails with the type error, appends    *)
(* nothing and allocates nothing.                                           *)
C21_NegIsZeroMinus ==
    last.op = "neg" =>
        LET value == last.given[1].val
            ty == type_of(value)
            inst == TopInstruction
        IN  IF ty.k = "Integer"
            THEN /\ last.outcome = "Ok"
                 /\ OneAppended(inst)
                 /\ inst.op = "BinaryOp" /\ inst.kind = "Sub"
                 /\ inst.lhs = IntegerValue([width |-> ty.width, value |-> 0])
                 /\ inst.rhs = value
                 /\ Len(allocs) = Len(pre.allocs) + 1
                 /\ Last(allocs).id \notin AllocatedIds(pre.allocs)
                 /\ inst.result = Last(allocs)
                 /\ last.ret = Some(VariableValue(Last(allocs)))
            ELSE /\ last.outcome = "TypeError"
                 /\ last.ret = None
                 /\ NothingAppended
                 /\ NothingAllocated

C21_Witness ==
    /\ last.op = "neg" /\ last.outcome = "Ok"
    /\ type_of(last.given[1].val) = IntegerType(16)
    /\ TopInstruction.lhs = IntegerValue([width |-> 16, value |-> 0])
    /\ TopInstruction.rhs = VariableValue(allocs[1])
    /\ Len(allocs) = 3

(* C22: an operand that is already a typed Value is taken unchanged and    *)
(* without error whatever type is expected.  In a call a Value argument is  *)
(* recorded as it is, also when its type is not the parameter's; in a       *)
(* binary operation the typed operand fixes the type the literal operand    *)
(* is coerced to, and lhs does when both are typed.                         *)
C22_ValuesTakenAsIs ==
    /\ (last.op = "call" /\ last.outcome \notin {"Panic", "ValueError"}) =>
           LET ty == find_function(pre.external_functions, last.name)[1]
               n == Len(last.given)
               fits == \A i \in 1..n :
                           IsValue(last.given[i])
                               \/ LiteralFits(last.given[i], ty.param_types[i])
           IN  /\ (last.outcome = "Ok") <=> fits
               /\ last.outcome = "Ok" =>
                      \A i \in 1..n :
                          IsValue(last.given[i]) =>
                              TopInstruction.args[i] = last.given[i].val
    /\ (IsBinaryOp /\ (IsValue(last.given[1]) \/ IsValue(last.given[2]))) =>
           LET lhs == last.given[1]
               rhs == last.given[2]
               ty == type_of(IF IsValue(lhs) THEN lhs.val ELSE rhs.val)
               other == IF IsValue(lhs) THEN rhs ELSE lhs
               inst == TopInstruction
           IN  /\ (last.outcome = "Ok") <=> (IsValue(other) \/ LiteralFits(other, ty))
               /\ last.outcome = "Ok" =>
                      /\ IsValue(lhs) => inst.lhs = lhs.val
                      /\ IsValue(rhs) => inst.rhs = rhs.val
                      /\ ~IsValue(lhs) => type_of(inst.lhs) = ty
                      /\ ~IsValue(rhs) => type_of(inst.rhs) = ty
                      /\ inst.result.ty = ty

C22_Witness ==
    /\ last.op = "call" /\ last.outcome = "Ok" /\ last.name = "g"
    /\ Len(last.given) = 2
    /\ IsValue(last.given[1])
    /\ type_of(last.given[1].val) = DoubleType
    /\ TopInstruction.args[1] = last.given[1].val

(* C23: in every state the public operations can reach (gates, binary      *)
(* operations, calls, if_result with callbacks that succeed or fail), the   *)
(* frame stack holds at least one frame, and one more for every callback    *)
(* that is running: an append never finds the stack empty, and the          *)
(* pop_frame of if_result never returns None nor takes the last frame.      *)
C23_FrameAlwaysThere ==
    /\ Len(frames) >= 1
    /\ Len(frames) >= Len(calls) + 1
    /\ calls # <<>> =>
           /\ pop_frame(frames).popped # None
           /\ pop_frame(frames).frames # <<>>

C23_Witness ==
    /\ Len(calls) = 1
    /\ Len(frames) = 3
    /\ last.op = "if_result" /\ last.outcome = "CallbackError"
    /\ frames[2] # <<>>

(* C24: when a name has been declared more than once with different        *)
(* signatures, every call through it is checked against the first           *)
(* declaration under that name (arity, coercion of the arguments, type of   *)
(* the result variable); later declarations change nothing.                 *)
C24_FirstDeclarationRules ==
    LET table == pre.external_functions
        hits == {i \in 1..Len(table) : table[i].name = last.name}
    IN  (last.op = "call" /\ hits # {}) =>
            LET ty == table[CHOOSE i \in hits : \A j \in hits : i <= j].ty
                n == Len(last.given)
                inst == TopInstruction
            IN  /\ (last.outcome = "ValueError") <=> (n # Len(ty.param_types))
                /\ n = Len(ty.param_types) =>
                       (last.outcome = "Ok") <=>
                           \A i \in 1..n :
                               IsValue(last.given[i])
                                   \/ LiteralFits(last.given[i], ty.param_types[i])
                /\ last.outcome = "Ok" =>
                       /\ \A i \in 1..n :
                              ~IsValue(last.given[i]) =>
                                  type_of(inst.args[i]) = ty.param_types[i]
                       /\ IF ty.return_type = Void
                          THEN last.ret = None /\ inst.result = None
                          ELSE /\ last.ret # None
                               /\ type_of(last.ret[1]) = ty.return_type.ty
                               /\ inst.result = Some(last.ret[1].var)

C24_Witness ==
    /\ Len(external_functions) = 2
    /\ external_functions[1] = [name |-> "f", ty |-> FnIntToInt]
    /\ external_functions[2] = [name |-> "f", ty |-> FnVoid]
    /\ last.op = "call" /\ last.outcome = "Ok" /\ last.name = "f"
    /\ last.given = <<PyInt(255)>>
    /\ last.ret # None

====
